---- MODULE Spec2Model ----
(***************************************************************************)
(* Trader's Journal API (src/main.py, src/schemas.py): the request         *)
(* handlers over the "journalentry" collection, as a state machine.        *)
(*                                                                         *)
(* JSON values are written wrapped: None is JSON null / Python None and    *)
(* Some(v) is the value v, so that [] (Some(<<>>)) and null (None) differ. *)
(* A key that is absent from an object is absent from the function's       *)
(* DOMAIN.  Texts that the code looks into (regex search, identifier       *)
(* syntax) are sequences of one-character strings.                         *)
(***************************************************************************)
EXTENDS Integers, Sequences, FiniteSets, TLC

\* ---------------------------------------------------------------- bounds
\* identifiers the store hands out (= entries ever created)
MaxIds == 2
\* last instant of the clock
MaxClock == 1
\* create/update handlers that may sit between their two store calls
MaxInFlight == 1

None == <<>>
Some(v) == <<v>>

Min(a, b) == IF a <= b THEN a ELSE b
Range(s) == {s[i] : i \in 1..Len(s)}

\* ------------------------------------------------------------ characters
\* str.lower() on one character, for the characters the inputs use
LowerChar(c) ==
    CASE c = "A" -> "a" [] c = "B" -> "b" [] c = "C" -> "c" [] c = "D" -> "d"
      [] c = "E" -> "e" [] c = "F" -> "f" [] c = "G" -> "g" [] c = "N" -> "n"
      [] c = "S" -> "s" [] c = "W" -> "w" [] c = "Y" -> "y"
      [] OTHER -> c

HexDigits == {"0", "1", "2", "3", "4", "5", "6", "7", "8", "9",
              "a", "b", "c", "d", "e", "f", "A", "B", "C", "D", "E", "F"}

HexVal(c) ==
    CASE c = "0" -> 0 [] c = "1" -> 1 [] c = "2" -> 2 [] c = "3" -> 3
      [] c = "4" -> 4 [] c = "5" -> 5 [] c = "6" -> 6 [] c = "7" -> 7
      [] c = "8" -> 8 [] c = "9" -> 9
      [] LowerChar(c) = "a" -> 10 [] LowerChar(c) = "b" -> 11
      [] LowerChar(c) = "c" -> 12 [] LowerChar(c) = "d" -> 13
      [] LowerChar(c) = "e" -> 14 [] LowerChar(c) = "f" -> 15

HexChar(n) ==
    CASE n = 0 -> "0" [] n = 1 -> "1" [] n = 2 -> "2" [] n = 3 -> "3"
      [] n = 4 -> "4" [] n = 5 -> "5" [] n = 6 -> "6" [] n = 7 -> "7"
      [] n = 8 -> "8" [] n = 9 -> "9" [] n = 10 -> "a" [] n = 11 -> "b"
      [] n = 12 -> "c" [] n = 13 -> "d" [] n = 14 -> "e" [] n = 15 -> "f"

\* ------------------------------------------------------ identifier codec
\* ObjectId.is_valid on a str: 24 hexadecimal characters
is_valid(s) == Len(s) = 24 /\ \A i \in 1..Len(s) : s[i] \in HexDigits

\* ObjectId(s): the 12 bytes the 24 hexadecimal characters spell
ObjectId(s) == [i \in 1..12 |-> 16 * HexVal(s[2 * i - 1]) + HexVal(s[2 * i])]

\* str(oid): the bytes in lower-case hexadecimal
ObjectIdStr(oid) ==
    [i \in 1..24 |-> IF i % 2 = 1 THEN HexChar(oid[(i + 1) \div 2] \div 16)
                                  ELSE HexChar(oid[i \div 2] % 16)]

\* the n-th identifier the store generates: distinct for distinct n
NewObjectId(n) == [i \in 1..12 |-> IF i = 12 THEN 160 + n ELSE 0]

\* ----------------------------------------------------------------- texts
\* the characters of the texts the handlers search in or for
Chars(s) ==
    CASE s = "" -> <<>>
      [] s = "ES" -> <<"E", "S">>
      [] s = "nq" -> <<"n", "q">>
      [] s = "NY" -> <<"N", "Y">>
      [] s = "London" -> <<"L", "o", "n", "d", "o", "n">>
      [] s = "Asia" -> <<"A", "s", "i", "a">>
      [] s = "Other" -> <<"O", "t", "h", "e", "r">>
      [] s = "Win" -> <<"W", "i", "n">>
      [] s = "Loss" -> <<"L", "o", "s", "s">>
      [] s = "Break-even" -> <<"B", "r", "e", "a", "k", "-", "e", "v", "e", "n">>
      [] s = "Gap up" -> <<"G", "a", "p", " ", "u", "p">>
      [] s = "gap" -> <<"g", "a", "p">>
      [] s = "GAP" -> <<"G", "A", "P">>
      [] s = "ny" -> <<"n", "y">>
      [] s = "zz" -> <<"z", "z">>
      [] s = "n." -> <<"n", ".">>
      [] s = "...." -> <<".", ".", ".", ".">>

\* datetime.isoformat()
isoformat(t) == "T" \o ToString(t)

\* ---------------------------------------------------------------- schemas
Sessions == {"NY", "London", "Asia", "Other"}
Outcomes == {"Win", "Loss", "Break-even"}

EntryFields == {"date", "instrument", "session", "rr", "lot_size", "outcome",
                "notes", "tags", "screenshots"}
RequiredFields == {"date", "instrument", "session", "outcome"}

\* a field's value is acceptable to the Create/stored shape
FieldOk(k, v) ==
    CASE k = "session" -> v # None /\ v[1] \in Sessions
      [] k = "outcome" -> v # None /\ v[1] \in Outcomes
      [] k \in {"date", "instrument", "tags", "screenshots"} -> v # None
      [] OTHER -> TRUE

\* JournalEntryCreate: required fields present, every present field acceptable
ValidCreate(p) ==
    /\ RequiredFields \subseteq DOMAIN p
    /\ \A k \in DOMAIN p \cap EntryFields : FieldOk(k, p[k])

\* the default of an optional field of JournalEntryCreate / JournalEntry
FieldDefault(k) ==
    CASE k = "notes" -> Some("")
      [] k \in {"tags", "screenshots"} -> Some(<<>>)
      [] OTHER -> None

\* JournalEntry(**payload.model_dump()).model_dump(): all nine fields,
\* defaults filled in, unknown keys dropped
CreateDump(p) ==
    [k \in EntryFields |-> IF k \in DOMAIN p THEN p[k] ELSE FieldDefault(k)]

\* as ValidUpdate, had session and outcome been plain Optional[str]
ValidUpdate_any_text(p) == TRUE

\* JournalEntryUpdate: every field Optional; enumerations still checked
ValidUpdate(p) ==
    \A k \in DOMAIN p \cap EntryFields :
        p[k] = None \/ FieldOk(k, p[k])

\* as UpdateDump, had the model kept the keys it does not declare
UpdateDump_keep_extra(p) == p

\* payload.model_dump(exclude_unset=True): the model's fields the body set
UpdateDump(p) == [k \in DOMAIN p \cap EntryFields |-> p[k]]

\* as NonNull, had line 136 not dropped the None values
NonNull_keep_none(dump) == dump

\* update_entry line 136: the dumped fields without the None values
NonNull(dump) == [k \in {f \in DOMAIN dump : dump[f] # None} |-> dump[k]]

\* ------------------------------------------------------------- serializer
serialize_entry(doc) ==
    IF DOMAIN doc = {} THEN doc
    ELSE [k \in (DOMAIN doc \ {"_id"}) \cup {"id"} |->
            CASE k = "id" -> Some(ObjectIdStr(doc["_id"][1]))
              [] k \in {"created_at", "updated_at"} -> Some(isoformat(doc[k][1]))
              [] OTHER -> doc[k]]

\* ------------------------------------------------------------------ store
NoDoc == [k \in {} |-> None]

HasId(c, oid) == \E i \in 1..Len(c) : c[i]["_id"] = Some(oid)

\* collection.find_one({"_id": oid}): the document, or None (here NoDoc)
FindOne(c, oid) ==
    IF HasId(c, oid)
    THEN c[CHOOSE i \in 1..Len(c) : c[i]["_id"] = Some(oid)]
    ELSE NoDoc

\* $set
SetFields(doc, upd) ==
    [k \in DOMAIN doc \cup DOMAIN upd |-> IF k \in DOMAIN upd THEN upd[k] ELSE doc[k]]

\* as update_data, had updated_at been set only along with another field
update_data_if_changed(payload, t) ==
    IF DOMAIN NonNull(UpdateDump(payload)) = {} THEN NoDoc
    ELSE SetFields(NonNull(UpdateDump(payload)), [updated_at |-> Some(t)])

\* update_entry lines 136-137: the $set document
update_data(payload, t) ==
    SetFields(NonNull(UpdateDump(payload)), [updated_at |-> Some(t)])

\* as UpdateOne, had the call been made with upsert=True
UpdateOne_upsert(c, oid, upd) ==
    IF HasId(c, oid)
    THEN LET i == CHOOSE j \in 1..Len(c) : c[j]["_id"] = Some(oid)
         IN  [c EXCEPT ![i] = SetFields(c[i], upd)]
    ELSE Append(c, SetFields([_id |-> Some(oid)], upd))

\* collection.update_one({"_id": oid}, {"$set": upd}): first match only, no upsert
UpdateOne(c, oid, upd) ==
    IF HasId(c, oid)
    THEN LET i == CHOOSE j \in 1..Len(c) : c[j]["_id"] = Some(oid)
         IN  [c EXCEPT ![i] = SetFields(c[i], upd)]
    ELSE c

\* collection.delete_one({"_id": oid})
DeleteOne(c, oid) ==
    IF HasId(c, oid)
    THEN LET i == CHOOSE j \in 1..Len(c) : c[j]["_id"] = Some(oid)
         IN  SubSeq(c, 1, i - 1) \o SubSeq(c, i + 1, Len(c))
    ELSE c

\* create_document: the model's fields plus created_at, inserted under a new _id
NewDocument(data, oid, t) ==
    [k \in DOMAIN data \cup {"_id", "created_at"} |->
        CASE k = "_id" -> Some(oid)
          [] k = "created_at" -> Some(t)
          [] OTHER -> data[k]]

\* ---------------------------------------------------------- query builder
\* Python truthiness of an Optional[str] query parameter
Truthy(v) == v # None /\ v[1] # ""

\* list_entries lines 102-113: the filter document
ListFilter(date, tag, q) ==
    [k \in ({"date"} \cap (IF Truthy(date) THEN {"date"} ELSE {}))
           \cup ({"tags"} \cap (IF Truthy(tag) THEN {"tags"} ELSE {}))
           \cup ({"$or"} \cap (IF Truthy(q) THEN {"$or"} ELSE {})) |->
        CASE k = "date" -> date[1]
          [] k = "tags" -> tag[1]
          [] k = "$or" -> q[1]]

\* the fields the $or clause searches
SearchFields == {"notes", "instrument", "session", "outcome"}

\* {"$regex": pat, "$options": "i"} against a text, for patterns made of
\* literal characters and ".", which stands for any character: an unanchored
\* search, letters compared without case
RegexSearch(pat, text) ==
    \E s \in 0..(Len(text) - Len(pat)) :
        \A i \in 1..Len(pat) :
            pat[i] = "." \/ LowerChar(pat[i]) = LowerChar(text[s + i])

\* the store's evaluation of the filter document on one document
Matches(doc, filt) ==
    /\ "date" \in DOMAIN filt => doc["date"] = Some(filt["date"])
    /\ "tags" \in DOMAIN filt =>
          doc["tags"] # None /\ filt["tags"] \in Range(doc["tags"][1])
    /\ "$or" \in DOMAIN filt =>
          \E f \in SearchFields :
              doc[f] # None /\ RegexSearch(Chars(filt["$or"]), Chars(doc[f][1]))

\* get_documents: find(filt).limit(limit), in insertion order
get_documents(c, filt, limit) ==
    LET hits == SelectSeq(c, LAMBDA d : Matches(d, filt))
    IN  SubSeq(hits, 1, Min(limit, Len(hits)))

\* ----------------------------------------------------- tags aggregation
\* {"$limit": 100}
TagsLimit == 100

RECURSIVE Unwind(_)
\* {"$unwind": "$tags"}: one item per element of each document's tags
Unwind(c) ==
    IF c = <<>> THEN <<>>
    ELSE (IF c[1]["tags"] = None THEN <<>> ELSE c[1]["tags"][1]) \o Unwind(Tail(c))

\* {"$group": {"_id": "$tags", "count": {"$sum": 1}}}
Group(items) ==
    {[_id |-> t, count |-> Cardinality({i \in 1..Len(items) : items[i] = t})] :
        t \in Range(items)}

\* the groups that share one count
TieClasses(G) == {{g \in G : g.count = h.count} : h \in G}

\* every order of the members of one class
Orders(T) ==
    {s \in [1..Cardinality(T) -> T] : \A i, j \in 1..Cardinality(T) : s[i] = s[j] => i = j}

RECURSIVE Arrangements(_)
\* one order for each of the classes Cs
Arrangements(Cs) ==
    IF Cs = {} THEN {[C \in {} |-> <<>>]}
    ELSE LET T == CHOOSE C \in Cs : TRUE
         IN  {[C \in Cs |-> IF C = T THEN s ELSE arr[C]] :
                 s \in Orders(T), arr \in Arrangements(Cs \ {T})}

\* {"$sort": {"count": -1}}: every order the store may produce; groups with
\* different counts come in decreasing count, groups with equal counts in
\* any order
SortDesc(G) ==
    LET classes == TieClasses(G)
        count(C) == (CHOOSE g \in C : TRUE).count
        before == [C \in classes |-> Cardinality({h \in G : h.count > count(C)})]
        class == [i \in 1..Cardinality(G) |->
                    CHOOSE C \in classes : before[C] < i /\ i <= before[C] + Cardinality(C)]
        single == [C \in {D \in classes : Cardinality(D) = 1} |-> CHOOSE g \in C : TRUE]
    IN  {[i \in 1..Cardinality(G) |->
            IF class[i] \in DOMAIN single THEN single[class[i]]
            ELSE arr[class[i]][i - before[class[i]]]] :
            arr \in Arrangements({C \in classes : Cardinality(C) > 1})}

\* as Aggregate, without the $limit stage
Aggregate_no_limit(c) == SortDesc(Group(Unwind(c)))

\* the pipeline of get_tags, lines 161-167: the result lists it can produce
Aggregate(c) ==
    {SubSeq(r, 1, Min(TagsLimit, Len(r))) : r \in SortDesc(Group(Unwind(c)))}

\* ------------------------------------------------------------------ state
VARIABLES
    db,        \* TRUE: the store handle is configured; FALSE: db is None
    coll,      \* the journalentry collection, in insertion order
    next_id,   \* identifiers the store has generated so far
    now,       \* the clock (UTC)
    inflight,  \* per worker: the handler that is between its two store calls
    resp       \* what the last handler step did and answered

vars == <<db, coll, next_id, now, inflight, resp>>

Idle == [op |-> "idle"]

\* status 0: the handler has not answered yet
Resp(op, id, payload, status, body, calls) ==
    [op |-> op, id |-> id, payload |-> payload, status |-> status,
     body |-> body, calls |-> calls]

Detail(msg) == [detail |-> msg]

Init ==
    /\ db \in BOOLEAN
    /\ coll = <<>>
    /\ next_id = 0
    /\ now = 0
    /\ inflight = [w \in 1..MaxInFlight |-> Idle]
    /\ resp = Resp("start", None, None, 0, NoDoc, <<>>)

\* ----------------------------------------------------------------- inputs
HexId(n) == ObjectIdStr(NewObjectId(n))
UpperId(n) == [i \in 1..24 |-> IF HexId(n)[i] = "a" THEN "A" ELSE HexId(n)[i]]

\* path parameters: every identifier the store can hand out, one of them
\* also in upper case, and three malformed ones
InvalidIds == {<<"x", "y", "z">>,
               [i \in 1..24 |-> IF i = 24 THEN "g" ELSE "0"],
               [i \in 1..23 |-> "0"]}
EntryIds == {HexId(n) : n \in 1..MaxIds} \cup {UpperId(1)} \cup InvalidIds

P_min ==
    [date |-> Some("2024-01-01"), instrument |-> Some("ES"),
     session |-> Some("NY"), outcome |-> Some("Win")]
P_full ==
    [date |-> Some("2024-01-02"), instrument |-> Some("nq"),
     session |-> Some("Asia"), rr |-> Some(2), lot_size |-> Some(1),
     outcome |-> Some("Loss"), notes |-> Some("Gap up"),
     tags |-> Some(<<"b", "a", "b">>), screenshots |-> Some(<<"img">>)]

ValidCreatePayloads == {P_min, P_full}
InvalidCreatePayloads ==
    {[P_min EXCEPT !.session = Some("Tokyo")],
     [P_min EXCEPT !.outcome = Some("Draw")],
     [P_min EXCEPT !.date = None],
     [k \in {"date", "instrument", "session"} |-> P_min[k]]}
CreatePayloads == ValidCreatePayloads \cup InvalidCreatePayloads

U_empty == NoDoc
U_nulls == [notes |-> None, session |-> None, tags |-> None, rr |-> None]
U_some ==
    [session |-> Some("Asia"), notes |-> Some("Gap up"),
     tags |-> Some(<<"b", "a", "b">>), rr |-> Some(2), lot_size |-> None,
     outcome |-> None]
U_extra ==
    [_id |-> Some(NewObjectId(2)), created_at |-> Some(7), updated_at |-> Some(7),
     id |-> Some(HexId(2)), notes |-> None]

ValidUpdatePayloads == {U_empty, U_nulls, U_some, P_full, U_extra}
InvalidUpdatePayloads ==
    {[session |-> Some("Tokyo")], [outcome |-> Some("Draw"), notes |-> Some("")]}
UpdatePayloads == ValidUpdatePayloads \cup InvalidUpdatePayloads

\* limit: Optional[int] = 200
DefaultLimit == 200

Query(date, tag, q, limit) == [date |-> date, tag |-> tag, q |-> q, limit |-> limit]

ListQueries ==
    {Query(d, t, q, l) :
        d \in {None, Some(""), Some("2024-01-01")},
        t \in {None, Some(""), Some("a")},
        q \in {None, Some(""), Some("gap"), Some("GAP"), Some("ny"), Some("n."),
               Some("...."), Some("zz")},
        l \in {DefaultLimit, 1}}

\* the listings the full service model asks for
SomeListQueries ==
    {Query(None, None, None, DefaultLimit),
     Query(Some("2024-01-01"), None, Some("ny"), DefaultLimit),
     Query(None, Some("a"), Some("...."), 1)}

\* --------------------------------------------------------------- handlers
FreeWorkers == {w \in 1..MaxInFlight : inflight[w] = Idle}

\* time passes
Tick ==
    /\ now < MaxClock
    /\ now' = now + 1
    /\ resp' = Resp("tick", None, None, 0, NoDoc, <<>>)
    /\ UNCHANGED <<db, coll, next_id, inflight>>

\* GET /
read_root ==
    /\ resp' = Resp("root", None, None, 200,
                    [message |-> "Trader's Journal API is running"], <<>>)
    /\ UNCHANGED <<db, coll, next_id, now, inflight>>

\* POST /api/entries with a body that does not parse as JournalEntryCreate:
\* the framework answers the validation error and create_entry is not called
reject_create(payload) ==
    /\ ~ValidCreate(payload)
    /\ resp' = Resp("reject_create", None, payload, 422, Detail("validation"), <<>>)
    /\ UNCHANGED <<db, coll, next_id, now, inflight>>

\* POST /api/entries, up to the insert (lines 89-93)
create_entry(w, payload) ==
    /\ w \in FreeWorkers
    /\ ValidCreate(payload)
    /\ IF ~db
       THEN /\ resp' = Resp("create", None, payload, 503,
                            Detail("Database not configured"), <<>>)
            /\ UNCHANGED <<db, coll, next_id, now, inflight>>
       ELSE /\ next_id < MaxIds
            /\ next_id' = next_id + 1
            /\ coll' = Append(coll, NewDocument(CreateDump(payload),
                                                NewObjectId(next_id'), now))
            /\ inflight' = [inflight EXCEPT ![w] =
                               [op |-> "create", id |-> HexId(next_id')]]
            /\ resp' = Resp("create", None, payload, 0, NoDoc, <<"insert_one">>)
            /\ UNCHANGED <<db, now>>

\* POST /api/entries, the re-fetch (lines 94-95)
create_entry_refetch(w) ==
    /\ inflight[w] # Idle
    /\ inflight[w].op = "create"
    /\ resp' = Resp("create", Some(inflight[w].id), None, 200,
                    serialize_entry(FindOne(coll, ObjectId(inflight[w].id))),
                    <<"find_one">>)
    /\ inflight' = [inflight EXCEPT ![w] = Idle]
    /\ UNCHANGED <<db, coll, next_id, now>>

\* as get_entry, had the identifier been checked before the store handle
get_entry_id_first(entry_id) ==
    /\ LET doc == FindOne(coll, ObjectId(entry_id))
       IN  resp' =
             IF ~is_valid(entry_id)
             THEN Resp("get", Some(entry_id), None, 400, Detail("Invalid ID"), <<>>)
             ELSE IF ~db
             THEN Resp("get", Some(entry_id), None, 503,
                       Detail("Database not configured"), <<>>)
             ELSE IF DOMAIN doc = {}
             THEN Resp("get", Some(entry_id), None, 404, Detail("Not found"),
                       <<"find_one">>)
             ELSE Resp("get", Some(entry_id), None, 200, serialize_entry(doc),
                       <<"find_one">>)
    /\ UNCHANGED <<db, coll, next_id, now, inflight>>

\* GET /api/entries/{entry_id}
get_entry(entry_id) ==
    /\ LET doc == FindOne(coll, ObjectId(entry_id))
       IN  resp' =
             IF ~db
             THEN Resp("get", Some(entry_id), None, 503,
                       Detail("Database not configured"), <<>>)
             ELSE IF ~is_valid(entry_id)
             THEN Resp("get", Some(entry_id), None, 400, Detail("Invalid ID"), <<>>)
             ELSE IF DOMAIN doc = {}
             THEN Resp("get", Some(entry_id), None, 404, Detail("Not found"),
                       <<"find_one">>)
             ELSE Resp("get", Some(entry_id), None, 200, serialize_entry(doc),
                       <<"find_one">>)
    /\ UNCHANGED <<db, coll, next_id, now, inflight>>

\* PATCH /api/entries/{entry_id} with a body that does not parse as
\* JournalEntryUpdate: the framework answers the validation error and
\* update_entry is not called
reject_update(entry_id, payload) ==
    /\ ~ValidUpdate(payload)
    /\ resp' = Resp("reject_update", Some(entry_id), payload, 422,
                    Detail("validation"), <<>>)
    /\ UNCHANGED <<db, coll, next_id, now, inflight>>

\* PATCH /api/entries/{entry_id}, up to update_one (lines 131-140)
update_entry(w, entry_id, payload) ==
    /\ w \in FreeWorkers
    /\ ValidUpdate(payload)
    /\ IF ~db
       THEN /\ resp' = Resp("update", Some(entry_id), payload, 503,
                            Detail("Database not configured"), <<>>)
            /\ UNCHANGED <<db, coll, next_id, now, inflight>>
       ELSE IF ~is_valid(entry_id)
       THEN /\ resp' = Resp("update", Some(entry_id), payload, 400,
                            Detail("Invalid ID"), <<>>)
            /\ UNCHANGED <<db, coll, next_id, now, inflight>>
       ELSE LET oid == ObjectId(entry_id)
            IN  /\ coll' = UpdateOne(coll, oid, update_data(payload, now))
                /\ IF ~HasId(coll, oid)
                   THEN /\ resp' = Resp("update", Some(entry_id), payload, 404,
                                        Detail("Not found"), <<"update_one">>)
                        /\ UNCHANGED inflight
                   ELSE /\ resp' = Resp("update", Some(entry_id), payload, 0,
                                        NoDoc, <<"update_one">>)
                        /\ inflight' = [inflight EXCEPT ![w] =
                                           [op |-> "update", id |-> entry_id]]
                /\ UNCHANGED <<db, next_id, now>>

\* PATCH /api/entries/{entry_id}, the re-fetch (lines 141-142)
update_entry_refetch(w) ==
    /\ inflight[w] # Idle
    /\ inflight[w].op = "update"
    /\ resp' = Resp("update", Some(inflight[w].id), None, 200,
                    serialize_entry(FindOne(coll, ObjectId(inflight[w].id))),
                    <<"find_one">>)
    /\ inflight' = [inflight EXCEPT ![w] = Idle]
    /\ UNCHANGED <<db, coll, next_id, now>>

\* as delete_entry, had the identifier gone to the store unchecked and the
\* store matched nothing for a malformed one
delete_entry_unchecked(entry_id) ==
    /\ IF ~db
       THEN /\ resp' = Resp("delete", Some(entry_id), None, 503,
                            Detail("Database not configured"), <<>>)
            /\ UNCHANGED coll
       ELSE IF ~is_valid(entry_id)
       THEN /\ resp' = Resp("delete", Some(entry_id), None, 404,
                            Detail("Not found"), <<"delete_one">>)
            /\ UNCHANGED coll
       ELSE /\ coll' = DeleteOne(coll, ObjectId(entry_id))
            /\ resp' =
                 IF ~HasId(coll, ObjectId(entry_id))
                 THEN Resp("delete", Some(entry_id), None, 404,
                           Detail("Not found"), <<"delete_one">>)
                 ELSE Resp("delete", Some(entry_id), None, 200,
                           [status |-> Some("deleted"), id |-> Some(entry_id)],
                           <<"delete_one">>)
    /\ UNCHANGED <<db, next_id, now, inflight>>

\* DELETE /api/entries/{entry_id}
delete_entry(entry_id) ==
    /\ IF ~db
       THEN /\ resp' = Resp("delete", Some(entry_id), None, 503,
                            Detail("Database not configured"), <<>>)
            /\ UNCHANGED coll
       ELSE IF ~is_valid(entry_id)
       THEN /\ resp' = Resp("delete", Some(entry_id), None, 400,
                            Detail("Invalid ID"), <<>>)
            /\ UNCHANGED coll
       ELSE /\ coll' = DeleteOne(coll, ObjectId(entry_id))
            /\ resp' =
                 IF ~HasId(coll, ObjectId(entry_id))
                 THEN Resp("delete", Some(entry_id), None, 404,
                           Detail("Not found"), <<"delete_one">>)
                 ELSE Resp("delete", Some(entry_id), None, 200,
                           [status |-> Some("deleted"), id |-> Some(entry_id)],
                           <<"delete_one">>)
    /\ UNCHANGED <<db, next_id, now, inflight>>

\* GET /test
test_database ==
    /\ \E url_set \in BOOLEAN, listing_ok \in BOOLEAN :
          resp' =
            IF db
            THEN Resp("test", None, None, 200,
                      [backend |-> "Running",
                       database |-> IF listing_ok THEN "Connected & Working"
                                                  ELSE "Connected but Error",
                       database_url |-> IF url_set THEN "Set" ELSE "Not Set",
                       connection_status |-> IF listing_ok THEN "Connected"
                                                           ELSE "Not Connected",
                       collections |-> IF listing_ok /\ next_id > 0
                                       THEN <<"journalentry">> ELSE <<>>],
                      <<"list_collection_names">>)
            ELSE Resp("test", None, None, 200,
                      [backend |-> "Running",
                       database |-> "Available but not initialized",
                       database_url |-> "None",
                       connection_status |-> "Not Connected",
                       collections |-> <<>>],
                      <<>>)
    /\ UNCHANGED <<db, coll, next_id, now, inflight>>

\* GET /api/entries
list_entries(query) ==
    /\ resp' =
         IF ~db
         THEN Resp("list", None, query, 503, Detail("Database not configured"), <<>>)
         ELSE LET filt == ListFilter(query.date, query.tag, query.q)
                  docs == get_documents(coll, filt, query.limit)
              IN  Resp("list", None, query, 200,
                       [i \in 1..Len(docs) |-> serialize_entry(docs[i])], <<"find">>)
    /\ UNCHANGED <<db, coll, next_id, now, inflight>>

\* GET /api/tags
get_tags ==
    /\ IF ~db
       THEN resp' = Resp("tags", None, None, 503,
                         Detail("Database not configured"), <<>>)
       ELSE \E results \in Aggregate(coll) :
               resp' = Resp("tags", None, None, 200,
                            [i \in 1..Len(results) |-> results[i]["_id"]],
                            <<"aggregate">>)
    /\ UNCHANGED <<db, coll, next_id, now, inflight>>

Next ==
    \/ Tick
    \/ read_root
    \/ \E p \in CreatePayloads : reject_create(p)
    \/ \E w \in 1..MaxInFlight, p \in CreatePayloads : create_entry(w, p)
    \/ \E w \in 1..MaxInFlight : create_entry_refetch(w)
    \/ \E id \in EntryIds : get_entry(id)
    \/ \E id \in EntryIds, p \in UpdatePayloads : reject_update(id, p)
    \/ \E w \in 1..MaxInFlight, id \in EntryIds, p \in UpdatePayloads :
          update_entry(w, id, p)
    \/ \E w \in 1..MaxInFlight : update_entry_refetch(w)
    \/ \E id \in EntryIds : delete_entry(id)
    \/ test_database
    \/ \E query \in SomeListQueries : list_entries(query)
    \/ get_tags

Spec == Init /\ [][Next]_vars

\* ------------------------------------------- listing and tags on their own
\* the stored form of a create payload, as create_entry leaves it
Stored(p, n, t) == NewDocument(CreateDump(p), NewObjectId(n), t)

\* entries the service can hold under identifier n
StoredEntries(n) ==
    {Stored(P_min, n, 0), Stored(P_full, n, 0),
     SetFields(Stored(P_min, n, 0), update_data(U_some, 0))}

\* collections of up to two entries
ListColls ==
    {<<>>} \cup {<<a>> : a \in StoredEntries(1)}
           \cup {<<a, b>> : a \in StoredEntries(1), b \in StoredEntries(2)}

InitList ==
    /\ db = TRUE
    /\ coll \in ListColls
    /\ next_id = Len(coll)
    /\ now = 0
    /\ inflight = [w \in 1..MaxInFlight |-> Idle]
    /\ resp = Resp("start", None, None, 0, NoDoc, <<>>)

NextList == \E query \in ListQueries : list_entries(query)

\* list_entries over every combination of its parameters
SpecList == InitList /\ [][NextList]_vars

\* small tag sets: tags t1..tn for n up to
MaxSmallRamp == 4
\* how far the number of distinct tags goes beyond TagsLimit
TagsOver == 1

Tag(i) == "t" \o ToString(i)

RECURSIVE Ramp(_)
\* a tags list in which Tag(i) occurs i times, for i in 1..n
Ramp(n) == IF n = 0 THEN <<>> ELSE Ramp(n - 1) \o [j \in 1..n |-> Tag(n)]

RampSizes == (0..MaxSmallRamp) \cup ((TagsLimit - 1)..(TagsLimit + TagsOver))

\* tags of a second entry: they make some counts equal
ExtraTags ==
    {<<>>, <<Tag(1)>>, <<Tag(2), Tag(1)>>, <<Tag(1), Tag(1)>>,
     <<Tag(3), Tag(1), Tag(3)>>, <<"a", "a", Tag(2)>>}

Tagged(n, tags) == Stored([P_full EXCEPT !.tags = Some(tags)], n, 0)

TagColls ==
    {<<Tagged(1, Ramp(n))>> : n \in RampSizes}
      \cup {<<Tagged(1, Ramp(n)), Tagged(2, x)>> : n \in RampSizes, x \in ExtraTags}

InitTags ==
    /\ db = TRUE
    /\ coll \in TagColls
    /\ next_id = Len(coll)
    /\ now = 0
    /\ inflight = [w \in 1..MaxInFlight |-> Idle]
    /\ resp = Resp("start", None, None, 0, NoDoc, <<>>)

NextTags == get_tags

\* get_tags over collections with few and with more than TagsLimit tags
SpecTags == InitTags /\ [][NextTags]_vars

\* ------------------------------------------------------------- properties
Oids(c) == {c[i]["_id"][1] : i \in 1..Len(c)}

\* the step just taken was the store write of an update that matched
UpdateMatched == resp'.op = "update" /\ resp'.status = 0

\* the step just taken was the re-fetch that ends a create or an update
Refetch == \E w \in 1..MaxInFlight : inflight[w] # Idle /\ inflight'[w] = Idle

\* the handlers that take an identifier from the path
IdOps == {"get", "update", "delete"}
DataOps == {"create", "list", "get", "update", "delete", "tags"}

\* C1: a successful update sets exactly the fields that the payload carries
\* with a non-null value to the supplied values, adds or refreshes updated_at,
\* and leaves every other field of the entry and every other entry as it was.
C1_UpdateFrame ==
    [][UpdateMatched =>
         LET target == Some(ObjectId(resp'.id[1]))
             p == resp'.payload
         IN  /\ Len(coll') = Len(coll)
             /\ \A i \in 1..Len(coll) :
                   IF coll[i]["_id"] # target
                   THEN coll'[i] = coll[i]
                   ELSE /\ DOMAIN coll'[i] = DOMAIN coll[i] \cup {"updated_at"}
                        /\ \A k \in DOMAIN coll[i] \ {"updated_at"} :
                              coll'[i][k] =
                                 IF k \in EntryFields /\ k \in DOMAIN p /\ p[k] # None
                                 THEN p[k] ELSE coll[i][k]
      ]_vars

\* C1 happens: an update carrying both null and non-null fields was applied
\* to one of two stored entries, and a field sent as null kept a value
C1_Witness ==
    /\ resp.op = "update" /\ resp.status = 0
    /\ Len(coll) = 2
    /\ \E k \in DOMAIN resp.payload \cap EntryFields : resp.payload[k] # None
    /\ \E k \in DOMAIN resp.payload \cap EntryFields :
          /\ resp.payload[k] = None
          /\ FindOne(coll, ObjectId(resp.id[1]))[k] # None

C3_Missing404 ==
    [][(/\ db /\ resp'.op \in IdOps /\ ~Refetch
        /\ is_valid(resp'.id[1])
        /\ ObjectId(resp'.id[1]) \notin Oids(coll)) =>
         /\ resp'.status = 404
         /\ coll' = coll
      ]_vars

\* C3 happens: a delete of an identifier that the store did hand out, and whose
\* entry is gone, was answered 404 while another entry is stored
C3_Witness ==
    /\ resp.op = "delete" /\ resp.status = 404
    /\ \E n \in 1..next_id : ObjectId(resp.id[1]) = NewObjectId(n)
    /\ Len(coll) > 0

C5_UpdatedAt ==
    [][\A i \in 1..Len(coll') :
          LET d == coll'[i]
              oid == d["_id"][1]
          IN  IF UpdateMatched /\ ObjectId(resp'.id[1]) = oid
              THEN "updated_at" \in DOMAIN d /\ d["updated_at"] = Some(now)
              ELSE IF oid \in Oids(coll)
              THEN LET old == FindOne(coll, oid)
                   IN  /\ "updated_at" \in DOMAIN d <=> "updated_at" \in DOMAIN old
                       /\ "updated_at" \in DOMAIN d =>
                             d["updated_at"] = old["updated_at"]
              ELSE "updated_at" \notin DOMAIN d
      ]_vars

\* C5 happens: an update that sets no field refreshed updated_at of an entry
\* created earlier, next to an entry that was never updated
C5_Witness ==
    /\ resp.op = "update" /\ resp.status = 0
    /\ DOMAIN NonNull(UpdateDump(resp.payload)) = {}
    /\ LET d == FindOne(coll, ObjectId(resp.id[1]))
       IN  d["updated_at"] = Some(now) /\ d["created_at"] # Some(now)
    /\ \E i \in 1..Len(coll) : "updated_at" \notin DOMAIN coll[i]

\* a stored entry's required fields are present and non-null and its
\* enumerated fields hold one of their values
EntryValid(d) ==
    /\ RequiredFields \subseteq DOMAIN d
    /\ \A k \in RequiredFields : d[k] # None
    /\ d["session"][1] \in Sessions
    /\ d["outcome"][1] \in Outcomes

\* C6: every stored entry always has its required fields non-null and session
\* and outcome within their enumerations; a create or update payload with
\* another session/outcome value is rejected and changes nothing.
C6_Enumerations ==
    /\ [](\A i \in 1..Len(coll) : EntryValid(coll[i]))
    /\ [][(/\ resp'.op \in {"create", "update", "reject_create", "reject_update"}
           /\ \E k \in {"session", "outcome"} \cap DOMAIN resp'.payload :
                 /\ resp'.payload[k] # None
                 /\ resp'.payload[k][1] \notin
                       (IF k = "session" THEN Sessions ELSE Outcomes)) =>
            /\ resp'.status >= 400
            /\ coll' = coll
         ]_vars

\* C6 happens: an update naming a session outside the enumeration was rejected
\* while the addressed entry is stored, after an update of that entry
C6_Witness ==
    /\ resp.op = "reject_update"
    /\ "session" \in DOMAIN resp.payload
    /\ resp.payload["session"] = Some("Tokyo")
    /\ is_valid(resp.id[1])
    /\ LET d == FindOne(coll, ObjectId(resp.id[1]))
       IN  DOMAIN d # {} /\ "updated_at" \in DOMAIN d

\* C9: identifiers in the collection are pairwise distinct; no step changes
\* the identifier or created_at of an entry that stays; a new entry's
\* identifier differs from that of every entry present when it is created.
C9_IdCreatedAt ==
    /\ [](\A i, j \in 1..Len(coll) : coll[i]["_id"] = coll[j]["_id"] => i = j)
    /\ [][/\ resp'.op # "delete" =>
                \A i \in 1..Len(coll) :
                    /\ i <= Len(coll')
                    /\ coll'[i]["_id"] = coll[i]["_id"]
          /\ \A i \in 1..Len(coll') :
                LET oid == coll'[i]["_id"][1]
                IN  IF oid \in Oids(coll)
                    THEN coll'[i]["created_at"] = FindOne(coll, oid)["created_at"]
                    ELSE /\ resp'.op = "create"
                         /\ i = Len(coll')
                         /\ Len(coll') = Len(coll) + 1
         ]_vars

\* C9 happens: an update whose payload names _id, id and created_at was
\* applied to the second of two stored entries
C9_Witness ==
    /\ resp.op = "update" /\ resp.status = 0
    /\ {"_id", "id", "created_at"} \subseteq DOMAIN resp.payload
    /\ Len(coll) = 2
    /\ coll[2]["_id"] = Some(ObjectId(resp.id[1]))

\* C10: a create or update that answers success returns the addressed entry,
\* a non-empty object with its id, also when the entry is deleted between the
\* write and the re-fetch.
C10_NeverEmpty ==
    (resp.op \in {"create", "update"} /\ resp.status = 200) =>
        /\ DOMAIN resp.body # {}
        /\ resp.body["id"] = Some(ObjectIdStr(ObjectId(resp.id[1])))

\* the distinct tags of a collection
AllTags(c) == UNION {Range(c[i]["tags"][1]) : i \in 1..Len(c)}

\* the number of times tag t appears in the entries' tags lists
Occurrences(c, t) ==
    Cardinality({<<i, j>> \in UNION {{i} \X (1..Len(c[i]["tags"][1])) : i \in 1..Len(c)} :
                    c[i]["tags"][1][j] = t})

\* C7: the tags aggregation returns distinct tag names that occur in stored
\* entries, in non-increasing order of their number of occurrences, as many as
\* min(100, number of distinct tags); a tag left out occurs no more often
\* than any tag returned; the collection is not modified.
C7_TagsAggregation ==
    [][(resp'.op = "tags" /\ resp'.status = 200) =>
         LET r == resp'.body
             all == AllTags(coll)
             occ == [t \in all |-> Occurrences(coll, t)]
         IN  /\ \A i, j \in 1..Len(r) : r[i] = r[j] => i = j
             /\ \A i \in 1..Len(r) : r[i] \in all
             /\ \A i \in 1..(Len(r) - 1) : occ[r[i]] >= occ[r[i + 1]]
             /\ Len(r) = Min(100, Cardinality(all))
             /\ \A t \in all \ Range(r) : \A i \in 1..Len(r) : occ[r[i]] >= occ[t]
             /\ coll' = coll
      ]_vars

\* C7 happens: more than 100 distinct tags are stored and the aggregation
\* answered 100 names, leaving out a tag that occurs as often as one it returned
C7_Witness ==
    /\ resp.op = "tags" /\ resp.status = 200
    /\ Cardinality(AllTags(coll)) > 100
    /\ Len(resp.body) = 100
    /\ \E t \in Range(resp.body), u \in AllTags(coll) \ Range(resp.body) :
          Occurrences(coll, t) = Occurrences(coll, u)

\* pat occurs in text as a substring, letters compared without case
ContainsCI(pat, text) ==
    \E s \in 0..(Len(text) - Len(pat)) :
        \A i \in 1..Len(pat) : LowerChar(pat[i]) = LowerChar(text[s + i])

\* the listing's stated filter: every supplied (non-empty) parameter holds
Satisfies(d, query) ==
    /\ Truthy(query.date) => d["date"] = query.date
    /\ Truthy(query.tag) => query.tag[1] \in Range(d["tags"][1])
    /\ Truthy(query.q) =>
          \E f \in SearchFields :
              d[f] # None /\ ContainsCI(Chars(query.q[1]), Chars(d[f][1]))

\* C8: a listing returns only stored entries that satisfy every supplied
\* filter (date equal, tag an element of tags, q a case-insensitive substring
\* of notes, instrument, session or outcome); absent or empty parameters do
\* not restrict, so with none every entry matches; the collection is not
\* modified.
C8_ListFilters ==
    [][(resp'.op = "list" /\ resp'.status = 200) =>
         LET query == resp'.payload
             out == resp'.body
         IN  /\ \A i \in 1..Len(out) :
                   \E j \in 1..Len(coll) :
                       /\ serialize_entry(coll[j]) = out[i]
                       /\ Satisfies(coll[j], query)
             /\ (~Truthy(query.date) /\ ~Truthy(query.tag) /\ ~Truthy(query.q)) =>
                   Len(out) = Min(query.limit, Len(coll))
             /\ coll' = coll
      ]_vars

====
